---- MODULE Spec2Model ----
(***************************************************************************)
(* Reader and builder feed of the constant database package (cdb.go,       *)
(* util.go).  A file is a sequence of bytes; 32-bit words are kept as      *)
(* pairs <<low 16 bits, high 16 bits>> so that every uint32 operation of   *)
(* the code wraps modulo 2^32 exactly as it does in Go.                    *)
(***************************************************************************)
EXTENDS Integers, Sequences, FiniteSets, TLC

slotWidth == 8
headerWidth == 8
nHeaders == 256
headerSize == nHeaders * headerWidth

\* ------------------------------------------------------------ uint32 words
W16 == 256 * 256

\* the uint32 with value n, for 0 <= n < 2^31
U32(n) == <<n % W16, n \div W16>>

Zero32 == <<0, 0>>

\* uint32 addition, wrapping modulo 2^32
Add32(x, y) ==
    LET lo == x[1] + y[1]
    IN  <<lo % W16, (x[2] + y[2] + (lo \div W16)) % W16>>

\* x * m for a small multiplier m, wrapping modulo 2^32
Mul32(x, m) ==
    LET lo == x[1] * m
    IN  <<lo % W16, (x[2] * m + (lo \div W16)) % W16>>

\* x <= n where n is an int (a slice length)
Le32(x, n) == x[2] < 32768 /\ x[2] * W16 + x[1] <= n

\* the int value of a word known to be below 2^31
ToInt(x) == x[2] * W16 + x[1]

\* i < x for an int loop counter i and a uint32 bound x
IntLt32(i, x) == x[2] >= 32768 \/ i < x[2] * W16 + x[1]

RECURSIVE XorBits(_, _)
XorBits(a, b) ==
    IF a = 0 /\ b = 0 THEN 0
    ELSE ((a + b) % 2) + 2 * XorBits(a \div 2, b \div 2)

\* x ^ uint32(c) for a byte c
XorByte32(x, c) == <<(x[1] - (x[1] % 256)) + XorBits(x[1] % 256, c), x[2]>>

\* binary.LittleEndian.Uint32 of the four bytes of b that follow offset off
Uint32At(b, off) == <<b[off + 1] + 256 * b[off + 2], b[off + 3] + 256 * b[off + 4]>>

\* the four little-endian bytes of a word
PutUint32(x) == <<x[1] % 256, x[1] \div 256, x[2] % 256, x[2] \div 256>>

\* ------------------------------------------------------------ hash
RECURSIVE HashFrom(_, _, _)
HashFrom(h, key, i) ==
    IF i > Len(key) THEN h
    ELSE HashFrom(XorByte32(Add32(Mul32(h, 32), h), key[i]), key, i + 1)

Hash(key) == HashFrom(U32(5381), key, 1)

\* hashcode & 0xff
Bucket(h) == h[1] % 256

\* hashcode >> 8, always below 2^24
Shr8(h) == (h[1] \div 256) + 256 * h[2]

\* (hashcode >> 8) % nslots, for nslots > 0
StartSlot(h, nslots) ==
    IF nslots[2] >= 256 THEN Shr8(h) ELSE Shr8(h) % ToInt(nslots)

\* ------------------------------------------------------------ CDB.Data
ErrNil == "nil"
ErrNotFound == "key not found"
\* the error a recovered run-time panic (slice bounds, index) is turned into
ErrPanic == "runtime error"
\* not an error of the code: the marker of a probe step that goes on
Continue == "continue"

\* a byte slice is nil or a view [off, off + len) of the mapped bytes
NilSlice == [nil |-> TRUE, off |-> 0, len |-> 0]
Slice(off, len) == [nil |-> FALSE, off |-> off, len |-> len]

\* val and err are what Data returns; probes lists the slot indices the loop
\* read, in order, and steps counts the loop iterations that read a slot
Outcome(val, err, probes) ==
    [val |-> val, err |-> err, probes |-> probes, steps |-> U32(Len(probes))]

\* the test of line 167 left out
EmptyBucketNever(hdr) == FALSE

\* header.nslots == 0
EmptyBucket(hdr) == hdr.nslots = Zero32

\* a match taken on the hash alone
KeyEqualAlways(key, recKey) == TRUE

\* bytes.Equal(key, recKey)
KeyEqual(key, recKey) == key = recKey

\* i < header.nslots, the bound of the probe loop
MoreSlots(i, nslots) == IntLt32(i, nslots)

\* the probe without its wraparound
NextSlotNoWrap(slot, tLen) == slot + slotWidth

\* slot += slotWidth; if slot >= uint32(len(table)) { slot = 0 }
NextSlot(slot, tLen) == IF slot + slotWidth >= tLen THEN 0 ELSE slot + slotWidth

\* The body of "if hash == hashcode": decode the record at pos.  The err of
\* the result is Continue when the key differs and the probe goes on.
Decode(data, key, pos, probes) ==
    IF ~Le32(pos, Len(data)) THEN Outcome(NilSlice, ErrPanic, probes)
    ELSE
    LET p == ToInt(pos)
        rLen == Len(data) - p
    IN  IF rLen < 8 THEN Outcome(NilSlice, ErrPanic, probes)
        ELSE
        LET keyLen == Uint32At(data, p)
            dataLen == Uint32At(data, p + 4)
            kHi == Add32(U32(8), keyLen)
        IN  IF ~(Le32(kHi, rLen) /\ ToInt(kHi) >= 8)
            THEN Outcome(NilSlice, ErrPanic, probes)
            ELSE
            LET recKey == SubSeq(data, p + 9, p + ToInt(kHi))
                vHi == Add32(kHi, dataLen)
            IN  IF ~KeyEqual(key, recKey) THEN Outcome(NilSlice, Continue, probes)
                ELSE IF ~(Le32(vHi, rLen) /\ ToInt(vHi) >= ToInt(kHi))
                THEN Outcome(NilSlice, ErrPanic, probes)
                ELSE Outcome(Slice(p + ToInt(kHi), ToInt(vHi) - ToInt(kHi)),
                             ErrNil, probes)

\* The probe loop: i is the loop counter, sp[1] the byte offset slot in
\* table, sp[2] the slot indices read so far.  When the table slice is
\* shorter than nslots slots (nslots * 8 wrapped) and every slot of the slice
\* has been read without ending the call, the remaining iterations read the
\* same slots again with the same result, and the loop ends at i = nslots:
\* those iterations are not unrolled; probes keeps the first pass only.
RECURSIVE Probe(_, _, _, _, _, _, _, _)
Probe(data, key, hashcode, nslots, tOff, tLen, i, sp) ==
    LET slot == sp[1]
        probes == sp[2]
    IN
    IF ~MoreSlots(i, nslots) THEN Outcome(NilSlice, ErrNotFound, probes)
    ELSE IF slot + 8 > tLen THEN Outcome(NilSlice, ErrPanic, probes)
    ELSE IF i * slotWidth >= tLen
    THEN [Outcome(NilSlice, ErrNotFound, probes) EXCEPT !.steps = nslots]
    ELSE
    LET hash == Uint32At(data, tOff + slot)
        pos == Uint32At(data, tOff + slot + 4)
        seen == Append(probes, slot \div slotWidth)
    IN  IF pos = Zero32 THEN Outcome(NilSlice, ErrNotFound, seen)
        ELSE
        LET d == IF hash = hashcode THEN Decode(data, key, pos, seen)
                 ELSE Outcome(NilSlice, Continue, seen)
        IN  IF d.err # Continue THEN d
            ELSE Probe(data, key, hashcode, nslots, tOff, tLen, i + 1,
                       <<NextSlot(slot, tLen), seen>>)

\* db.Data(key) with the deferred recover: every panic becomes ErrPanic.
\* A zero nslots that gets past the first test panics in the % of line 173.
Data(db, key) ==
    LET hashcode == Hash(key)
        hdr == db.header[Bucket(hashcode)]
    IN  IF EmptyBucket(hdr) THEN Outcome(NilSlice, ErrNotFound, <<>>)
        ELSE
        LET high == Add32(hdr.pos, Mul32(hdr.nslots, slotWidth))
        IN  IF ~(Le32(high, Len(db.data)) /\ Le32(hdr.pos, ToInt(high)))
            THEN Outcome(NilSlice, ErrPanic, <<>>)
            ELSE
            LET tOff == ToInt(hdr.pos)
                tLen == ToInt(high) - tOff
            IN  IF hdr.nslots = Zero32 THEN Outcome(NilSlice, ErrPanic, <<>>)
                ELSE Probe(db.data, key, hashcode, hdr.nslots, tOff, tLen, 0,
                           <<StartSlot(hashcode, hdr.nslots) * slotWidth, <<>>>>)

\* readHeader: entry i of the directory, i in 0..nHeaders-1
readHeader(data) ==
    [i \in 0 .. (nHeaders - 1) |->
        [pos |-> Uint32At(data, i * headerWidth),
         nslots |-> Uint32At(data, i * headerWidth + 4)]]

\* the header of &CDB{}
ZeroHeader == [i \in 0 .. (nHeaders - 1) |-> [pos |-> Zero32, nslots |-> Zero32]]

\* ------------------------------------------------------------ database files
\* What the external builder writes for a list of records with distinct keys
\* (the file format of cr.yp.to/cdb): the directory, the records, then one
\* sub-table per bucket with load slots per record of the bucket, each record
\* placed by linear probing from (hash >> 8) % nslots.
Rec(key, val) == [key |-> key, val |-> val]

RecSize(r) == 8 + Len(r.key) + Len(r.val)

RecBytes(r) ==
    PutUint32(U32(Len(r.key))) \o PutUint32(U32(Len(r.val))) \o r.key \o r.val

RECURSIVE RecPos(_, _)
RecPos(recs, i) ==
    IF i = 1 THEN headerSize ELSE RecPos(recs, i - 1) + RecSize(recs[i - 1])

RecEnd(recs) == RecPos(recs, Len(recs) + 1)

KeyBucket(recs, i) == Bucket(Hash(recs[i].key))

Members(recs, b) ==
    SelectSeq([i \in 1 .. Len(recs) |-> i], LAMBDA i : KeyBucket(recs, i) = b)

TableSlots(recs, load, b) == load * Len(Members(recs, b))

TablePos(recs, load, b) ==
    RecEnd(recs)
    + slotWidth * load * Cardinality({i \in 1 .. Len(recs) : KeyBucket(recs, i) < b})

RECURSIVE FreeFrom(_, _, _)
FreeFrom(slots, n, w) ==
    IF slots[w].pos = Zero32 THEN w ELSE FreeFrom(slots, n, (w + 1) % n)

RECURSIVE Place(_, _, _, _, _)
Place(slots, n, recs, members, j) ==
    IF j > Len(members) THEN slots
    ELSE
    LET i == members[j]
        h == Hash(recs[i].key)
        w == FreeFrom(slots, n, Shr8(h) % n)
    IN  Place([slots EXCEPT ![w] = [hash |-> h, pos |-> U32(RecPos(recs, i))]],
              n, recs, members, j + 1)

TableOf(recs, load, b) ==
    LET n == TableSlots(recs, load, b)
    IN  Place([w \in 0 .. (n - 1) |-> [hash |-> Zero32, pos |-> Zero32]],
              n, recs, Members(recs, b), 1)

RECURSIVE SlotBytes(_, _, _)
SlotBytes(slots, n, w) ==
    IF w >= n THEN <<>>
    ELSE PutUint32(slots[w].hash) \o PutUint32(slots[w].pos) \o SlotBytes(slots, n, w + 1)

RECURSIVE AllRecBytes(_, _)
AllRecBytes(recs, i) ==
    IF i > Len(recs) THEN <<>> ELSE RecBytes(recs[i]) \o AllRecBytes(recs, i + 1)

RECURSIVE AllTableBytes(_, _, _)
AllTableBytes(recs, load, bs) ==
    IF bs = {} THEN <<>>
    ELSE
    LET b == CHOOSE x \in bs : \A y \in bs : x <= y
    IN  SlotBytes(TableOf(recs, load, b), TableSlots(recs, load, b), 0)
        \o AllTableBytes(recs, load, bs \ {b})

Build(recs, load) ==
    LET dir == [b \in 0 .. (nHeaders - 1) |->
                  PutUint32(U32(TablePos(recs, load, b)))
                  \o PutUint32(U32(TableSlots(recs, load, b)))]
        head == [i \in 1 .. headerSize |->
                   dir[(i - 1) \div headerWidth][((i - 1) % headerWidth) + 1]]
    IN  head \o AllRecBytes(recs, 1)
        \o AllTableBytes(recs, load, {KeyBucket(recs, i) : i \in 1 .. Len(recs)})

\* the file with the word at byte offset off replaced
Overwrite(f, off, word) ==
    [i \in 1 .. Len(f) |->
        IF i > off /\ i <= off + 4 THEN PutUint32(word)[i - off] ELSE f[i]]

\* the file cut to its first n bytes
Truncate(f, n) == SubSeq(f, 1, n)

\* ------------------------------------------------------------ inputs
MaxRecs == 2
MaxCloses == 2
MaxHeld == 1

\* "d@" and "ea" have the same 32-bit hash 0x596da1; kT has hash 0x1a1, in
\* the same bucket 0xa1; the empty key hashes to 5381.
kE == <<>>
kC1 == <<100, 64>>
kC2 == <<101, 97>>
kT == <<138, 191, 0, 96, 113>>

Keys == {kE, kC1, kC2, kT}

Pool == <<Rec(kC1, <<1>>), Rec(kC2, <<2, 3>>), Rec(kT, <<>>)>>

\* the lists of at most MaxRecs records of Pool with pairwise distinct keys
RecLists ==
    LET picks == UNION {[1 .. n -> 1 .. Len(Pool)] : n \in 0 .. MaxRecs}
    IN  {[i \in 1 .. Len(p) |-> Pool[p[i]]] :
            p \in {q \in picks : \A i, j \in 1 .. Len(q) : i # j => q[i] # q[j]}}

\* slots per record of a bucket: 1 leaves no empty slot, 2 is what cdbmake writes
Loads == {1, 2}

AllOnes32 == <<W16 - 1, W16 - 1>>

\* Files damaged in one place, around the first record of recs: its length
\* prefix, the slot that refers to it, the directory entry of its bucket,
\* and the end of the file.
Damaged(recs, load) ==
    LET base == Build(recs, load)
        b == KeyBucket(recs, 1)
        n == TableSlots(recs, load, b)
        rpos == RecPos(recs, 1)
        slotOff == TablePos(recs, load, b) + slotWidth * (Shr8(Hash(recs[1].key)) % n)
        dirOff == b * headerWidth
    IN  { Overwrite(base, rpos + 4, U32(Len(base))),
          Overwrite(base, rpos + 4, AllOnes32),
          Overwrite(base, rpos, U32(Len(base))),
          Overwrite(base, rpos, <<W16 - 8, W16 - 1>>),
          Overwrite(base, slotOff + 4, U32(Len(base) - 4)),
          Overwrite(base, dirOff, U32(Len(base))),
          Overwrite(base, dirOff + 4, U32(n + load + 1)),
          Overwrite(base, dirOff + 4, <<n, 8192>>),
          Truncate(base, Len(base) - slotWidth) }

\* a file shorter than the directory: a valid file cut short
ShortSizes == {0, 1, headerSize - 1}

\* ------------------------------------------------------------ state
VARIABLES
    file,      \* the bytes of the file on disk, and of its mapping once mapped
    recs,      \* the records the file was built from
    pc,        \* "start" before Open, then "opened" or "failed"
    db,        \* the CDB handle Open returned: [header, data]
    openRes,   \* what Open did: [err, mapped, headerReads]
    mapping,   \* "none", "mapped" or "unmapped"
    munmaps,   \* calls of syscall.Munmap so far
    closes,    \* calls of Close so far
    ref,       \* the caller still holds the handle
    fin,       \* the finalizer: "unset", "set" or "ran"
    res,       \* the outcome of the last call on the handle
    held,      \* the slices returned by Data that the caller still holds
    cr         \* the state of a Create call

vars == <<file, recs, pc, db, openRes, mapping, munmaps, closes, ref, fin, res, held, cr>>

readerVars == <<file, recs, pc, db, openRes, mapping, munmaps, closes, ref, fin, res, held>>

NoRes == [op |-> "none", key |-> <<>>, val |-> NilSlice, err |-> ErrNil,
          probes |-> <<>>, steps |-> Zero32, live |-> FALSE, n |-> 0]

CrIdle == [pc |-> "idle", pipe |-> <<>>, stdin |-> "none", started |-> FALSE,
           errs |-> <<>>, ret |-> <<>>, failed |-> {}, left |-> 0]

InitHandle ==
    /\ pc = "start"
    /\ db = [header |-> ZeroHeader, data |-> <<>>]
    /\ openRes = [err |-> ErrNil, mapped |-> FALSE, headerReads |-> 0]
    /\ mapping = "none"
    /\ munmaps = 0
    /\ closes = 0
    /\ ref = FALSE
    /\ fin = "unset"
    /\ res = NoRes
    /\ held = {}

\* every file: built, damaged or cut short
InitFiles ==
    \/ /\ recs \in RecLists
       /\ \E load \in Loads :
             file \in {Build(recs, load)}
                      \cup (IF recs = <<>> THEN {} ELSE Damaged(recs, load))
    \/ /\ recs = <<>>
       /\ file \in {Truncate(Build(<<>>, 1), n) : n \in ShortSizes}

Init == InitFiles /\ InitHandle /\ cr = CrIdle

\* ------------------------------------------------------------ Open
errShortFile == "file is too short for a CDB"

\* the size test off by one
ShortFileLax(size) == size <= headerSize

\* fi.Size() < headerSize
ShortFile(size) == size < headerSize

\* no special case for the empty file
EmptyFileNever(size) == FALSE

\* fi.Size() == 0
EmptyFile(size) == size = 0

\* io is the first system call that fails: "open", "stat", "mmap", or "ok"
Open(io) ==
    /\ pc = "start"
    /\ LET size == Len(file)
           fail(e) ==
               /\ pc' = "failed"
               /\ openRes' = [err |-> e, mapped |-> FALSE, headerReads |-> 0]
               /\ UNCHANGED <<db, mapping, ref, fin>>
       IN  IF io \in {"open", "stat"} THEN fail(io)
           ELSE IF EmptyFile(size)
           THEN /\ pc' = "opened"
                /\ db' = [header |-> ZeroHeader, data |-> <<>>]
                /\ openRes' = [err |-> ErrNil, mapped |-> FALSE, headerReads |-> 0]
                /\ ref' = TRUE
                /\ UNCHANGED <<mapping, fin>>
           ELSE IF ShortFile(size) THEN fail(errShortFile)
           ELSE IF io = "mmap" THEN fail(io)
           ELSE /\ pc' = "opened"
                /\ db' = [header |-> readHeader(file), data |-> file]
                /\ openRes' = [err |-> ErrNil, mapped |-> TRUE, headerReads |-> nHeaders]
                /\ mapping' = "mapped"
                /\ ref' = TRUE
                /\ fin' = "set"
    /\ UNCHANGED <<file, recs, munmaps, closes, res, held, cr>>

\* ------------------------------------------------------------ Data
\* keep: the caller keeps the returned slice
DataCall(key, keep) ==
    /\ pc = "opened"
    /\ ref
    /\ LET o == Data(db, key)
       IN  /\ res' = [op |-> "Data", key |-> key, val |-> o.val, err |-> o.err,
                      probes |-> o.probes, steps |-> o.steps,
                      live |-> db.data # <<>>, n |-> 0]
           /\ held' = IF keep /\ o.err = ErrNil /\ Cardinality(held) < MaxHeld
                      THEN held \cup {o.val} ELSE held
    /\ UNCHANGED <<file, recs, pc, db, openRes, mapping, munmaps, closes, ref, fin, cr>>

\* ------------------------------------------------------------ Close
\* db.data != nil
CloseUnmaps(d) == d.data # <<>>

\* Close that forgets to clear db.data
CloseDataKeep(d) == d.data

\* db.data = nil
CloseData(d) == <<>>

\* syscall.Munmap of a slice that is no live mapping fails with EINVAL
CloseBody ==
    /\ munmaps' = IF CloseUnmaps(db) THEN munmaps + 1 ELSE munmaps
    /\ mapping' = IF CloseUnmaps(db) /\ mapping = "mapped" THEN "unmapped" ELSE mapping
    /\ db' = [db EXCEPT !.data = CloseData(db)]
    /\ closes' = closes + 1
    /\ res' = [NoRes EXCEPT !.op = "Close", !.n = closes + 1,
                            !.live = CloseUnmaps(db),
                            !.err = IF CloseUnmaps(db) /\ mapping # "mapped"
                                    THEN "EINVAL" ELSE ErrNil]

Close ==
    /\ pc = "opened"
    /\ ref
    /\ closes < MaxCloses
    /\ CloseBody
    /\ UNCHANGED <<file, recs, pc, openRes, ref, fin, held, cr>>

\* ------------------------------------------------------------ lifetime
\* the caller drops its last reference to the handle
DropRef ==
    /\ pc = "opened"
    /\ ref
    /\ ref' = FALSE
    /\ UNCHANGED <<file, recs, pc, db, openRes, mapping, munmaps, closes, fin, res, held, cr>>

\* the garbage collector runs the finalizer of the unreachable handle
Finalize ==
    /\ pc = "opened"
    /\ ~ref
    /\ fin = "set"
    /\ fin' = "ran"
    /\ CloseBody
    /\ UNCHANGED <<file, recs, pc, openRes, ref, held, cr>>

\* the caller reads a slice it holds
Use ==
    /\ \E s \in held :
          res' = [NoRes EXCEPT !.op = "Use", !.val = s,
                               !.err = IF mapping = "mapped" \/ s.len = 0
                                       THEN ErrNil ELSE "fault"]
    /\ UNCHANGED <<file, recs, pc, db, openRes, mapping, munmaps, closes, ref, fin, held, cr>>

\* the caller lets go of a slice
Release ==
    /\ \E s \in held : held' = held \ {s}
    /\ UNCHANGED <<file, recs, pc, db, openRes, mapping, munmaps, closes, ref, fin, res, cr>>

\* ------------------------------------------------------------ Create
MaxFeed == 2

\* strconv.AppendUint(data, n, 10)
RECURSIVE AppendUint(_, _)
AppendUint(data, n) ==
    IF n < 10 THEN Append(data, 48 + n)
    ELSE Append(AppendUint(data, n \div 10), 48 + (n % 10))

\* AppendRecord: "+klen,vlen:key->value\n"
AppendRecord(data, key, value) ==
    Append(AppendUint(Append(AppendUint(Append(data, 43), Len(key)), 44), Len(value)), 58)
    \o key \o <<45, 62>> \o value \o <<10>>

\* the error Create returns: nil, or the messages it carries
NilError == <<>>

\* StdinPipe and Start.  A failing StdinPipe returns nil (line 49).
CreateBegin(pipeOk, startOk) ==
    /\ cr.pc = "idle"
    /\ cr' = IF ~pipeOk THEN [cr EXCEPT !.pc = "returned", !.ret = NilError]
             ELSE IF ~startOk
             THEN [cr EXCEPT !.pc = "returned", !.ret = <<"start">>]
             ELSE [cr EXCEPT !.pc = "creator", !.stdin = "open", !.started = TRUE,
                             !.left = MaxFeed]
    /\ UNCHANGED readerVars

\* the creator callback writes one record to the pipe; a failed write ends
\* the callback with that error
CreatorWrite(r, ok) ==
    /\ cr.pc = "creator"
    /\ cr.left > 0
    /\ cr' = IF ok
             THEN [cr EXCEPT !.pipe = @ \o AppendRecord(<<>>, r.key, r.val),
                             !.left = @ - 1]
             ELSE [cr EXCEPT !.pc = "newline", !.errs = Append(@, "creator: write"),
                             !.failed = @ \cup {"write"}]
    /\ UNCHANGED readerVars

\* the creator callback returns: nil, or an error of its own
CreatorReturn(ok) ==
    /\ cr.pc = "creator"
    /\ cr' = IF ok THEN [cr EXCEPT !.pc = "newline"]
             ELSE [cr EXCEPT !.pc = "newline", !.errs = Append(@, "creator")]
    /\ UNCHANGED readerVars

\* cdbPipe.Write("\n"); on failure Create returns at once (line 67)
FinalWrite(ok) ==
    /\ cr.pc = "newline"
    /\ cr' = IF ok THEN [cr EXCEPT !.pc = "close", !.pipe = Append(@, 10)]
             ELSE [cr EXCEPT !.pc = "returned", !.ret = <<"write">>,
                             !.failed = @ \cup {"write"}]
    /\ UNCHANGED readerVars

\* cdbPipe.Close()
PipeClose(ok) ==
    /\ cr.pc = "close"
    /\ cr' = [cr EXCEPT !.pc = "wait", !.stdin = "closed",
                        !.errs = IF ok THEN @ ELSE Append(@, "cdb close")]
    /\ UNCHANGED readerVars

\* cdbCmd.Wait() and the return of the joined errors
WaitAndReturn(ok) ==
    /\ cr.pc = "wait"
    /\ LET errs == IF ok THEN cr.errs ELSE Append(cr.errs, "cdb wait")
       IN  cr' = [cr EXCEPT !.pc = "returned", !.errs = errs, !.ret = errs,
                            !.failed = IF ok THEN @ ELSE @ \cup {"exit"}]
    /\ UNCHANGED readerVars

\* ------------------------------------------------------------ specifications
OpenAny == \E io \in {"ok", "open", "stat", "mmap"} : Open(io)

Lookup == \E key \in Keys : DataCall(key, FALSE)

Next == OpenAny \/ Lookup \/ Close

Spec == Init /\ [][Next]_vars

\* The lifetime of a handle and of the slices it lent, over the files as
\* built and the files shorter than the directory.
InitLife ==
    /\ \/ /\ recs \in RecLists
          /\ file = Build(recs, 2)
       \/ /\ recs = <<>>
          /\ file \in {Truncate(Build(<<>>, 1), n) : n \in ShortSizes}
    /\ InitHandle
    /\ cr = CrIdle

LookupKeep == \E key \in Keys, keep \in BOOLEAN : DataCall(key, keep)

NextLife == OpenAny \/ LookupKeep \/ Close \/ DropRef \/ Finalize \/ Use \/ Release

SpecLife == InitLife /\ [][NextLife]_vars

\* One call of Create, with every outcome of the pipe and of the builder.
InitCreate ==
    /\ file = <<>>
    /\ recs = <<>>
    /\ InitHandle
    /\ cr = CrIdle

NextCreate ==
    \/ \E pipeOk, startOk \in BOOLEAN : CreateBegin(pipeOk, startOk)
    \/ \E i \in 1 .. Len(Pool), ok \in BOOLEAN : CreatorWrite(Pool[i], ok)
    \/ \E ok \in BOOLEAN : CreatorReturn(ok)
    \/ \E ok \in BOOLEAN : FinalWrite(ok)
    \/ \E ok \in BOOLEAN : PipeClose(ok)
    \/ \E ok \in BOOLEAN : WaitAndReturn(ok)

SpecCreate == InitCreate /\ [][NextCreate]_vars

\* ------------------------------------------------------------ well-formed files
\* the bytes [off, off + n) of f
Bytes(f, off, n) == SubSeq(f, off + 1, off + n)

\* the sub-table of directory entry e lies within f (no wraparound: plain integers)
TableInFile(f, e) ==
    /\ e.nslots[2] = 0
    /\ Le32(e.pos, Len(f))
    /\ ToInt(e.pos) + slotWidth * ToInt(e.nslots) <= Len(f)

\* slot w of the sub-table of e
SlotAt(f, e, w) ==
    [hash |-> Uint32At(f, ToInt(e.pos) + slotWidth * w),
     pos |-> Uint32At(f, ToInt(e.pos) + slotWidth * w + 4)]

\* the record r is stored at byte offset p of f
RecordAt(f, p, r) ==
    /\ p >= headerSize
    /\ p + RecSize(r) <= Len(f)
    /\ Uint32At(f, p) = U32(Len(r.key))
    /\ Uint32At(f, p + 4) = U32(Len(r.val))
    /\ Bytes(f, p + 8, Len(r.key)) = r.key
    /\ Bytes(f, p + 8 + Len(r.key), Len(r.val)) = r.val

\* slot sl refers to record r
Refers(f, sl, r) ==
    /\ sl.pos # Zero32
    /\ sl.hash = Hash(r.key)
    /\ Le32(sl.pos, Len(f))
    /\ RecordAt(f, ToInt(sl.pos), r)

\* f is a database of exactly the records rs: keys pairwise distinct, every
\* sub-table inside the file, every occupied slot refers to a record of rs in
\* the bucket of its key, and every record is referred to by exactly one slot,
\* reached from its start slot by probing with wraparound over occupied slots.
WellFormed(f, rs) ==
    /\ Len(f) >= headerSize
    /\ \A i, j \in 1 .. Len(rs) : i # j => rs[i].key # rs[j].key
    /\ LET H == readHeader(f)
       IN  /\ \A b \in 0 .. (nHeaders - 1) :
                 H[b].nslots # Zero32 =>
                     /\ TableInFile(f, H[b])
                     /\ \A w \in 0 .. (ToInt(H[b].nslots) - 1) :
                           LET sl == SlotAt(f, H[b], w)
                           IN  sl.pos = Zero32
                               \/ \E i \in 1 .. Len(rs) :
                                     KeyBucket(rs, i) = b /\ Refers(f, sl, rs[i])
           /\ \A i \in 1 .. Len(rs) :
                 LET h == Hash(rs[i].key)
                     e == H[Bucket(h)]
                     n == ToInt(e.nslots)
                 IN  /\ e.nslots # Zero32
                     /\ Cardinality({w \in 0 .. (n - 1) :
                                        Refers(f, SlotAt(f, e, w), rs[i])}) = 1
                     /\ \E j \in 0 .. (n - 1) :
                           /\ Refers(f, SlotAt(f, e, (Shr8(h) + j) % n), rs[i])
                           /\ \A k \in 0 .. (j - 1) :
                                 SlotAt(f, e, (Shr8(h) + k) % n).pos # Zero32

HasKey(rs, key) == \E i \in 1 .. Len(rs) : rs[i].key = key

\* a Data call on a handle whose mapping is in place
LiveData == pc = "opened" /\ res.op = "Data" /\ res.live

\* ------------------------------------------------------------ claims
\* C1: on a well-formed database, Data(key) of every stored key returns the
\* value paired with that key and a nil error, also when another stored key
\* has the same 32-bit hash.
RoundTrip ==
    (LiveData /\ WellFormed(file, recs)) =>
        \A i \in 1 .. Len(recs) :
            res.key = recs[i].key =>
                /\ res.err = ErrNil
                /\ ~res.val.nil
                /\ Bytes(file, res.val.off, res.val.len) = recs[i].val

\* a stored key is found behind the slot of another stored key of the same hash
RoundTripWitness ==
    /\ LiveData
    /\ WellFormed(file, recs)
    /\ res.err = ErrNil
    /\ Len(res.probes) >= 2
    /\ \E i, j \in 1 .. Len(recs) :
          /\ i # j
          /\ recs[i].key = res.key
          /\ Hash(recs[j].key) = Hash(res.key)
          /\ Bytes(file, res.val.off, res.val.len) = recs[i].val

\* C2: on a well-formed database, Data(k) of a key that is not stored returns
\* ErrNotFound and a nil value.
Absence ==
    (LiveData /\ WellFormed(file, recs) /\ ~HasKey(recs, res.key)) =>
        (res.err = ErrNotFound /\ res.val.nil)

\* an absent key with the hash of a stored key probes a sub-table that has
\* no empty slot, all the way round
AbsenceWitness ==
    /\ LiveData
    /\ WellFormed(file, recs)
    /\ ~HasKey(recs, res.key)
    /\ \E i \in 1 .. Len(recs) : Hash(recs[i].key) = Hash(res.key)
    /\ res.steps = db.header[Bucket(Hash(res.key))].nslots
    /\ Len(res.probes) >= 2
    /\ res.err = ErrNotFound

\* Open got past os.Open and Stat
FileRead == pc # "start" /\ openRes.err \notin {"open", "stat"}

\* C3: Open of a zero-length file yields a handle with no mapping and an
\* all-zero header; every Data on it returns nil and ErrNotFound, before and
\* after any Close, and no Close of it unmaps anything or fails.
EmptyDatabase ==
    (FileRead /\ Len(file) = 0) =>
        /\ pc = "opened"
        /\ openRes.err = ErrNil
        /\ ~openRes.mapped
        /\ mapping = "none"
        /\ munmaps = 0
        /\ db.data = <<>>
        /\ db.header = ZeroHeader
        /\ res.op = "Data" => (res.err = ErrNotFound /\ res.val.nil)
        /\ res.op = "Close" => res.err = ErrNil

\* the empty key is looked up on the handle of the empty file after a Close
EmptyDatabaseWitness ==
    /\ pc = "opened"
    /\ Len(file) = 0
    /\ closes >= 1
    /\ res.op = "Data"
    /\ res.key = kE
    /\ res.err = ErrNotFound

\* C5: Open of a file of 1 .. 2047 bytes returns an error (errShortFile once
\* the file could be read) and no handle, maps nothing and reads no header
\* entry; a file of 0 bytes is accepted without a mapping; a file of 2048
\* bytes or more is mapped and its 256 header entries are parsed.
ShortFileOnOpen ==
    pc # "start" =>
        /\ (0 < Len(file) /\ Len(file) < 2048) =>
              /\ pc = "failed"
              /\ openRes.err # ErrNil
              /\ FileRead => openRes.err = errShortFile
              /\ ~openRes.mapped
              /\ openRes.headerReads = 0
              /\ mapping = "none"
        /\ (FileRead /\ Len(file) = 0) =>
              /\ pc = "opened"
              /\ ~openRes.mapped
              /\ openRes.headerReads = 0
        /\ (FileRead /\ Len(file) >= 2048 /\ openRes.err # "mmap") =>
              /\ pc = "opened"
              /\ openRes.err = ErrNil
              /\ openRes.mapped
              /\ openRes.headerReads = 256
              /\ \A i \in 0 .. 255 :
                    /\ db.header[i].pos = Uint32At(file, 8 * i)
                    /\ db.header[i].nslots = Uint32At(file, 8 * i + 4)

\* a file one byte shorter than the directory is refused
ShortFileWitness ==
    /\ pc = "failed"
    /\ Len(file) = 2047
    /\ openRes.err = errShortFile
    /\ ~openRes.mapped

\* ------------------------------------------------------------ corrupt files
\* the header entry Data selects for the key of the last call
ResEntry == db.header[Bucket(Hash(res.key))]

\* position + slot_count * 8 > len, in unbounded integers
TablePastEnd(e, len) ==
    \/ e.nslots[2] >= 4096
    \/ ~Le32(e.pos, len - slotWidth * ToInt(e.nslots))

\* the record at pos has its length prefix, its key range or its value range
\* past the end of f, in unbounded integers
RecordPastEnd(f, pos) ==
    \/ ~Le32(pos, Len(f) - 8)
    \/ LET p == ToInt(pos)
           room == Len(f) - p - 8
           keyLen == Uint32At(f, p)
           dataLen == Uint32At(f, p + 4)
       IN  \/ ~Le32(keyLen, room)
           \/ ~Le32(dataLen, room - ToInt(keyLen))

\* the slots Data decoded a record from: read, occupied, with the key's hash
DecodedSlots ==
    {j \in 1 .. Len(res.probes) :
        LET sl == SlotAt(file, ResEntry, res.probes[j])
        IN  sl.pos # Zero32 /\ sl.hash = Hash(res.key)}

\* C4: when Data decodes a record whose length prefix, key range or value
\* range runs past the mapped bytes, it returns an error other than
\* ErrNotFound and no value, whether or not the record's key is the query key.
CorruptRecordIsError ==
    (LiveData /\ \E j \in DecodedSlots :
                    RecordPastEnd(file, SlotAt(file, ResEntry, res.probes[j]).pos))
        => (res.err \notin {ErrNil, ErrNotFound} /\ res.val.nil)

\* C9: when the selected directory entry has slot_count > 0 and position +
\* slot_count * 8 exceeds the mapped length in unbounded integers, Data
\* returns an error other than ErrNotFound, no value, and reads no slot.
SubTableBoundsChecked ==
    (LiveData /\ ResEntry.nslots # Zero32 /\ TablePastEnd(ResEntry, Len(file)))
        => (res.err \notin {ErrNil, ErrNotFound} /\ res.val.nil /\ res.probes = <<>>)

\* ------------------------------------------------------------ the probe loop
\* x <= y for two words
LeWord(x, y) == x[2] < y[2] \/ (x[2] = y[2] /\ x[1] <= y[1])

\* (start + j) mod n in unbounded integers, for start < n and j < n
SlotAfter(start, j, n) ==
    IF IntLt32(start + j, n) THEN start + j ELSE start + j - ToInt(n)

\* the slots of the table slice Data took (defined once a slot was read)
SliceSlots(e) ==
    (ToInt(Add32(e.pos, Mul32(e.nslots, slotWidth))) - ToInt(e.pos)) \div slotWidth

\* the length prefix or the key range of the record at pos is past the end of f
KeyRangePastEnd(f, pos) ==
    \/ ~Le32(pos, Len(f) - 8)
    \/ ~Le32(Uint32At(f, ToInt(pos)), Len(f) - ToInt(pos) - 8)

\* the record at pos lies within f as far as its key, and its key is key
HoldsKey(f, pos, key) ==
    /\ ~KeyRangePastEnd(f, pos)
    /\ Uint32At(f, ToInt(pos)) = U32(Len(key))
    /\ Bytes(f, ToInt(pos) + 8, Len(key)) = key

\* every slot of the selected sub-table is in the file and occupied, and none
\* refers to a record with the query key
FullWithoutKey ==
    /\ TableInFile(file, ResEntry)
    /\ \A w \in 0 .. (ToInt(ResEntry.nslots) - 1) :
          LET sl == SlotAt(file, ResEntry, w)
          IN  sl.pos # Zero32 /\ ~HoldsKey(file, sl.pos, res.key)

\* some slot of the full sub-table has the key's hash and a record whose key
\* range is past the end of the file
UndecodableOnPath ==
    \E w \in 0 .. (ToInt(ResEntry.nslots) - 1) :
        LET sl == SlotAt(file, ResEntry, w)
        IN  sl.hash = Hash(res.key) /\ KeyRangePastEnd(file, sl.pos)

\* at most slot_count steps
StepsBounded == LeWord(res.steps, ResEntry.nslots)

\* ErrNotFound as soon as a slot with record_position 0 is read
StopsAtEmpty ==
    \A j \in 1 .. Len(res.probes) :
        SlotAt(file, ResEntry, res.probes[j]).pos = Zero32 =>
            (j = Len(res.probes) /\ res.err = ErrNotFound /\ res.val.nil)

\* C10 as claimed: for every file content, Data examines at most slot_count
\* slots, slot j of the probe being (start + j) mod slot_count; it returns
\* ErrNotFound at the first empty slot; and when all slot_count slots are
\* occupied and none holds the key it returns ErrNotFound after exactly
\* slot_count steps.
BoundedProbeAsClaimed ==
    (LiveData /\ ResEntry.nslots # Zero32) =>
        /\ StepsBounded
        /\ \A j \in 1 .. Len(res.probes) :
              res.probes[j] =
                  SlotAfter(StartSlot(Hash(res.key), ResEntry.nslots), j - 1, ResEntry.nslots)
        /\ StopsAtEmpty
        /\ FullWithoutKey =>
              (res.err = ErrNotFound /\ res.steps = ResEntry.nslots)

\* C10 amended: Data examines at most slot_count slots, from slot
\* (hash >> 8) mod slot_count on, one slot further per step, back to slot 0
\* after the last slot of the table slice it took (slot slot_count - 1 when
\* the sub-table lies in the file); it returns ErrNotFound at the first empty
\* slot; when all slot_count slots are occupied and none holds the key, it
\* returns ErrNotFound after exactly slot_count steps if every record with
\* the key's hash has its key range in the file, and a run-time error
\* otherwise.
BoundedProbe ==
    (LiveData /\ ResEntry.nslots # Zero32) =>
        /\ StepsBounded
        /\ \A j \in 1 .. Len(res.probes) :
              /\ res.probes[j] =
                    (StartSlot(Hash(res.key), ResEntry.nslots) + j - 1)
                        % SliceSlots(ResEntry)
              /\ TableInFile(file, ResEntry) =>
                    SliceSlots(ResEntry) = ToInt(ResEntry.nslots)
        /\ StopsAtEmpty
        /\ (FullWithoutKey /\ ~UndecodableOnPath) =>
              (res.err = ErrNotFound /\ res.steps = ResEntry.nslots)
        /\ (FullWithoutKey /\ UndecodableOnPath) =>
              (res.err = ErrPanic /\ res.val.nil)

\* an absent key goes round a sub-table without an empty slot, from its last
\* slot back to slot 0
BoundedProbeWitness ==
    /\ LiveData
    /\ ResEntry.nslots # Zero32
    /\ FullWithoutKey
    /\ ~UndecodableOnPath
    /\ Len(res.probes) >= 2
    /\ res.probes[1] # 0
    /\ res.probes[Len(res.probes)] = 0
    /\ res.steps = ResEntry.nslots
    /\ res.err = ErrNotFound

\* ------------------------------------------------------------ lifetime claims
\* C6: over any sequence of Close calls, explicit or made by the finalizer,
\* the first one unmaps the mapping and no later one calls Munmap, fails or
\* leaves the handle in another state; the handle of a zero-length file is
\* never unmapped.
CloseIdempotent ==
    /\ munmaps <= 1
    /\ ~openRes.mapped => (munmaps = 0 /\ mapping = "none")
    /\ (openRes.mapped /\ closes = 0) => (munmaps = 0 /\ mapping = "mapped")
    /\ closes >= 1 =>
          /\ db.data = <<>>
          /\ db.header = IF openRes.mapped THEN readHeader(file) ELSE ZeroHeader
          /\ munmaps = IF openRes.mapped THEN 1 ELSE 0
          /\ mapping = IF openRes.mapped THEN "unmapped" ELSE "none"
    /\ res.op = "Close" =>
          /\ res.err = ErrNil
          /\ res.live <=> (res.n = 1 /\ openRes.mapped)

\* two explicit Close calls and then the finalizer's, on a mapped file
CloseIdempotentWitness ==
    /\ openRes.mapped
    /\ closes >= 3
    /\ fin = "ran"
    /\ munmaps = 1
    /\ res.op = "Close"
    /\ ~res.live

\* C7: once the mapping is unmapped, by Close or by the finalizer, the caller
\* holds no usable slice that Data returned.
NoBorrowOutlivesUnmap ==
    mapping = "unmapped" => \A s \in held : s.len = 0

\* ------------------------------------------------------------ Create claim
\* C8: when Create returns after it started the builder, the builder's
\* standard input has been closed, and a failed write or a failed exit of the
\* builder has made the returned error non-nil.
StdinAlwaysClosed ==
    (cr.pc = "returned" /\ cr.started) =>
        /\ cr.stdin = "closed"
        /\ cr.failed # {} => cr.ret # NilError

====
